---- MODULE Spec2Model ----
(***************************************************************************)
(* Model of yara-x/src/compiler/ir/utils.rs: the masked-byte <-> byte-class *)
(* converter (class_to_hex_byte, hex_byte_to_class), the wildcard predicate *)
(* (any_byte) and the pattern chaining splitter (split_at_large_gaps).      *)
(*                                                                          *)
(* Conventions                                                              *)
(*   Option<T>    None is <<>>, Some(x) is <<x>>.                           *)
(*   u8           a number in 0..255.                                       *)
(*   u32          a pair <<hi, lo>> of 16-bit halves (value hi*2^16 + lo),  *)
(*                so that u32::MAX and wrapping subtraction are exact.      *)
(*   class range  a pair <<start, end>> with start <= end.                  *)
(***************************************************************************)
EXTENDS Integers, Sequences, FiniteSets, TLC

VARIABLES
    \* masked-byte converter
    mpc,            \* "start" | "built" | "expanded" | "panicked" | "classified"
    b,              \* Option<HexByte>: the argument of hex_byte_to_class, if called
    class,          \* ClassBytes: canonical sequence of ranges
    result,         \* Option<HexByte>: what class_to_hex_byte returned
    \* wildcard predicate
    apc,            \* "start" | "built" | "done"
    hir_kind,       \* the HirKind any_byte is applied to
    any_ret,        \* Option<bool>: what any_byte returned
    \* chaining splitter
    pc,             \* "start" | "loop" | "done" | "panicked"
    hir,            \* the argument of split_at_large_gaps
    items,          \* children of the concatenation not yet visited
    heading,        \* Option<Hir>
    trailing,       \* Vec<TrailingPattern>
    prev_gap,       \* Option<RangeInclusive<u32>>
    pattern_chunk,  \* Vec<Hir>
    ret             \* Option<(Hir, Vec<TrailingPattern>)>

mvars == <<mpc, b, class, result>>
avars == <<apc, hir_kind, any_ret>>
svars == <<pc, hir, items, heading, trailing, prev_gap, pattern_chunk, ret>>
vars == <<mpc, b, class, result, apc, hir_kind, any_ret,
          pc, hir, items, heading, trailing, prev_gap, pattern_chunk, ret>>

None == <<>>
Some(x) == <<x>>

Front(s) == SubSeq(s, 1, Len(s) - 1)
Last(s) == s[Len(s)]
MinOf(x, y) == IF x <= y THEN x ELSE y
MaxOf(x, y) == IF x >= y THEN x ELSE y

(***************************************************************************)
(* u8 arithmetic                                                           *)
(***************************************************************************)
U8MAX == 255
Byte == 0..U8MAX

RECURSIVE BitAnd(_, _)
BitAnd(x, y) ==
    IF x = 0 \/ y = 0 THEN 0
    ELSE (x % 2) * (y % 2) + 2 * BitAnd(x \div 2, y \div 2)

RECURSIVE BitXor(_, _)
BitXor(x, y) ==
    IF x = 0 THEN y
    ELSE IF y = 0 THEN x
    ELSE ((x + y) % 2) + 2 * BitXor(x \div 2, y \div 2)

\* `!x` on a u8
BitNot(x) == U8MAX - x

RECURSIVE count_ones(_)
count_ones(x) == IF x = 0 THEN 0 ELSE (x % 2) + count_ones(x \div 2)

(***************************************************************************)
(* Interval sets (regex_syntax ClassBytes / ClassUnicode).  Every          *)
(* constructor and push leaves the set canonical: sorted, with overlapping *)
(* and adjacent ranges merged.                                             *)
(***************************************************************************)
\* ClassBytesRange::new / ClassUnicodeRange::new order their two bounds
RangeNew(x, y) == <<MinOf(x, y), MaxOf(x, y)>>

\* two ranges overlap or touch (bounds compared as u32, so the two halves
\* of the char domain around the surrogates do not touch)
IsContiguous(r, s) == MaxOf(r[1], s[1]) <= MinOf(r[2], s[2]) + 1

\* class.push(range) on a canonical class c: the ranges that overlap or touch
\* the new one (a run c[p+1..q] of the sorted class) are replaced by their
\* union with it, which is what push followed by canonicalize leaves.
ClassPush(c, r) ==
    LET p == Cardinality({i \in 1..Len(c) : c[i][2] + 1 < r[1]})
        q == p + Cardinality({i \in 1..Len(c) : IsContiguous(c[i], r)})
        lo == IF q > p THEN MinOf(r[1], c[p + 1][1]) ELSE r[1]
        hi == IF q > p THEN MaxOf(r[2], c[q][2]) ELSE r[2]
    IN  SubSeq(c, 1, p) \o <<<<lo, hi>>>> \o SubSeq(c, q + 1, Len(c))

\* the bytes a ClassBytes matches
BytesOf(c) == {x \in Byte : \E i \in 1..Len(c) : c[i][1] <= x /\ x <= c[i][2]}

(***************************************************************************)
(* class_to_hex_byte                                                       *)
(***************************************************************************)
HexByte(value, mask) == [value |-> value, mask |-> mask]

\* `num_bytes += (range.end() - range.start()) as u32 + 1` over the ranges
\* lo..hi of the class (halved only to keep the evaluation shallow); the sum
\* is at most 256, far inside u32
RECURSIVE SumRanges(_, _, _)
SumRanges(ranges, lo, hi) ==
    IF lo > hi THEN 0
    ELSE IF lo = hi THEN (ranges[lo][2] - ranges[lo][1]) + 1
    ELSE SumRanges(ranges, lo, (lo + hi) \div 2)
         + SumRanges(ranges, (lo + hi) \div 2 + 1, hi)

\* num_bytes kept in a u8 instead of a u32
num_bytes_U8(ranges) == SumRanges(ranges, 1, Len(ranges)) % (U8MAX + 1)

num_bytes(ranges) == SumRanges(ranges, 1, Len(ranges))

\* class_to_hex_byte with the mask left un-negated
class_to_hex_byte_NegMask(c) ==
    IF c = <<>> THEN None
    ELSE LET smallest_byte == c[1][1]
             largest_byte == Last(c)[2]
             neg_mask == BitXor(largest_byte, smallest_byte)
         IN  IF BitAnd(largest_byte, smallest_byte) # smallest_byte THEN None
             ELSE IF 2 ^ count_ones(neg_mask) # num_bytes(c) THEN None
             ELSE Some(HexByte(smallest_byte, neg_mask))

class_to_hex_byte(c) ==
    IF c = <<>> THEN None
    ELSE LET smallest_byte == c[1][1]
             largest_byte == Last(c)[2]
             neg_mask == BitXor(largest_byte, smallest_byte)
         IN  IF BitAnd(largest_byte, smallest_byte) # smallest_byte THEN None
             ELSE IF 2 ^ count_ones(neg_mask) # num_bytes(c) THEN None
             ELSE Some(HexByte(smallest_byte, BitNot(neg_mask)))

(***************************************************************************)
(* hex_byte_to_class                                                       *)
(***************************************************************************)
\* the bytes ByteMaskCombinator::new(value, mask) yields
ByteMaskCombinator(value, mask) == {x \in Byte : BitAnd(x, mask) = value}

\* the range pushed for byte x, were it to start at the value
PushedRange_FromValue(x, value) == RangeNew(value, x)

\* ClassBytesRange::new(b, b)
PushedRange(x, value) == RangeNew(x, x)

\* the ranges the loop hands to class.push, one per byte the combinator
\* yields among lo..hi, in increasing order (the interval is halved only to
\* keep the evaluation shallow)
RECURSIVE PushedRanges(_, _, _, _)
PushedRanges(lo, hi, S, value) ==
    IF lo = hi
    THEN IF lo \in S THEN <<PushedRange(lo, value)>> ELSE <<>>
    ELSE PushedRanges(lo, (lo + hi) \div 2, S, value)
         \o PushedRanges((lo + hi) \div 2 + 1, hi, S, value)

\* the ranges hex_byte_to_class pushes for the masked byte hb
hex_byte_pushes(hb) ==
    PushedRanges(0, U8MAX, ByteMaskCombinator(hb.value, hb.mask), hb.value)

\* `for b in ByteMaskCombinator { class.push(..) }`: the ranges lo..hi of
\* the pushed sequence, pushed onto class c
RECURSIVE PushBytes(_, _, _, _)
PushBytes(ranges, lo, hi, c) ==
    IF lo > hi THEN c
    ELSE IF lo = hi THEN ClassPush(c, ranges[lo])
    ELSE LET mid == (lo + hi) \div 2
             left == PushBytes(ranges, lo, mid, c)
         IN  IF Len(left) >= 0 THEN PushBytes(ranges, mid + 1, hi, left) ELSE left

\* hex_byte_to_class without its assertion
hex_byte_assert_Off(hb) == TRUE

\* assert_eq!(b.value & !b.mask, 0)
hex_byte_assert(hb) == BitAnd(hb.value, BitNot(hb.mask)) = 0

\* the class built after the assertion passed
hex_byte_to_class(hb) ==
    LET ranges == hex_byte_pushes(hb)
    IN  PushBytes(ranges, 1, Len(ranges), <<>>)

(***************************************************************************)
(* The masked-byte converter as a state machine: a class is either built   *)
(* range by range (ClassBytes::new / push, as the tests do), taken from    *)
(* Hir::dot(Dot::AnyByte), or produced by hex_byte_to_class; then          *)
(* class_to_hex_byte is applied to it.                                     *)
(***************************************************************************)
\* largest bound of a range pushed by ClassPushRange
MaxPushByte == 8

MaskIdle ==
    /\ mpc = "start"
    /\ b = None
    /\ class = <<>>
    /\ result = None

\* the masked bytes hex_byte_to_class may be handed: any two u8
HexBytes == {HexByte(value, mask) : value, mask \in Byte}

ClassPushRange ==
    /\ b = None
    /\ mpc \in {"start", "built"}
    /\ mpc' = "built"
    /\ \E x, y \in 0..MaxPushByte : class' = ClassPush(class, RangeNew(x, y))
    /\ UNCHANGED <<b, result>>
    /\ UNCHANGED <<avars, svars>>

ClassDot ==
    /\ b = None
    /\ mpc = "start"
    /\ mpc' = "built"
    /\ class' = <<RangeNew(0, U8MAX)>>
    /\ UNCHANGED <<b, result>>
    /\ UNCHANGED <<avars, svars>>

HexByteToClass ==
    /\ b # None
    /\ mpc = "start"
    /\ IF hex_byte_assert(b[1])
       THEN /\ class' = hex_byte_to_class(b[1])
            /\ mpc' = "expanded"
       ELSE /\ class' = class
            /\ mpc' = "panicked"
    /\ UNCHANGED <<b, result>>
    /\ UNCHANGED <<avars, svars>>

ClassToHexByte ==
    /\ \/ b = None /\ mpc \in {"start", "built"}
       \/ mpc = "expanded"
    /\ result' = class_to_hex_byte(class)
    /\ mpc' = "classified"
    /\ UNCHANGED <<b, class>>
    /\ UNCHANGED <<avars, svars>>

(***************************************************************************)
(* u32 arithmetic on <<hi, lo>> pairs                                      *)
(***************************************************************************)
Half == 2 ^ 16

U32(n) == <<n \div Half, n % Half>>
U32MAX == <<Half - 1, Half - 1>>

U32Lt(x, y) == x[1] < y[1] \/ (x[1] = y[1] /\ x[2] < y[2])
U32Le(x, y) == x = y \/ U32Lt(x, y)

\* x - y modulo 2^32
U32WrappingSub(x, y) ==
    LET borrow == IF x[2] < y[2] THEN 1 ELSE 0
    IN  <<(x[1] - y[1] - borrow + Half) % Half, (x[2] - y[2] + Half) % Half>>

(***************************************************************************)
(* The regex_syntax Hir.  A node is a record with the same fields for      *)
(* every kind; the fields a kind does not use hold their defaults.         *)
(***************************************************************************)
Node(kind, bytes, ranges, min, max, greedy, subs) ==
    [kind |-> kind, bytes |-> bytes, ranges |-> ranges,
     min |-> min, max |-> max, greedy |-> greedy, subs |-> subs]

\* Hir::empty()
HirEmpty == Node("Empty", <<>>, <<>>, U32(0), None, FALSE, <<>>)

\* Hir::literal(bytes): no bytes give the empty Hir
HirLiteral(bytes) ==
    IF bytes = <<>> THEN HirEmpty
    ELSE Node("Literal", bytes, <<>>, U32(0), None, FALSE, <<>>)

\* HirKind::Class(Class::Bytes(..)) and HirKind::Class(Class::Unicode(..))
ClassBytes(ranges) == Node("ClassBytes", <<>>, ranges, U32(0), None, FALSE, <<>>)
ClassUnicode(ranges) == Node("ClassUnicode", <<>>, ranges, U32(0), None, FALSE, <<>>)

\* `0 as char` and char::MAX
CharMin == 0
CharMax == 1114111

\* Hir::dot(Dot::AnyByte) and Hir::dot(Dot::AnyChar)
DotAnyByte == ClassBytes(<<RangeNew(0, U8MAX)>>)
DotAnyChar == ClassUnicode(<<RangeNew(CharMin, CharMax)>>)

\* Hir::look(..): an assertion such as ^ or $
HirLook == Node("Look", <<>>, <<>>, U32(0), None, FALSE, <<>>)

\* Hir::repetition(Repetition { min, max, greedy, sub }): x{0,0} is the
\* empty Hir and x{1,1} is x
HirRepetition(min, max, greedy, sub) ==
    IF min = U32(0) /\ max = Some(U32(0)) THEN HirEmpty
    ELSE IF min = U32(1) /\ max = Some(U32(1)) THEN sub
    ELSE Node("Repetition", <<>>, <<>>, min, max, greedy, <<sub>>)

\* Hir::concat(subs): empty children are dropped, a child that is itself a
\* concatenation is spliced in, adjacent literals are joined; no child left
\* gives the empty Hir and a single child gives that child.
RECURSIVE Splice(_)
Splice(subs) ==
    IF subs = <<>> THEN <<>>
    ELSE LET h == Head(subs)
         IN  IF h.kind = "Empty" THEN Splice(Tail(subs))
             ELSE IF h.kind = "Concat" THEN h.subs \o Splice(Tail(subs))
             ELSE <<h>> \o Splice(Tail(subs))

RECURSIVE JoinLiterals(_)
JoinLiterals(subs) ==
    IF Len(subs) <= 1 THEN subs
    ELSE LET m == JoinLiterals(Front(subs))
             l == Last(m)
             r == Last(subs)
         IN  IF l.kind = "Literal" /\ r.kind = "Literal"
             THEN [m EXCEPT ![Len(m)] = HirLiteral(l.bytes \o r.bytes)]
             ELSE Append(m, r)

HirConcat(subs) ==
    LET new == JoinLiterals(Splice(subs))
    IN  IF new = <<>> THEN HirEmpty
        ELSE IF Len(new) = 1 THEN new[1]
        ELSE Node("Concat", <<>>, <<>>, U32(0), None, FALSE, new)

(***************************************************************************)
(* any_byte                                                                *)
(***************************************************************************)
\* any_byte looking at the start of the first range and the end of the last
any_byte_LastRange(k) ==
    IF k.kind = "ClassBytes"
    THEN IF k.ranges # <<>>
         THEN k.ranges[1][1] = 0 /\ Last(k.ranges)[2] = U8MAX
         ELSE FALSE
    ELSE IF k.kind = "ClassUnicode"
    THEN IF k.ranges # <<>>
         THEN k.ranges[1][1] = CharMin /\ Last(k.ranges)[2] = CharMax
         ELSE FALSE
    ELSE FALSE

any_byte(k) ==
    IF k.kind = "ClassBytes"
    THEN IF k.ranges # <<>>
         THEN k.ranges[1][1] = 0 /\ k.ranges[1][2] = U8MAX
         ELSE FALSE
    ELSE IF k.kind = "ClassUnicode"
    THEN IF k.ranges # <<>>
         THEN k.ranges[1][1] = CharMin /\ k.ranges[1][2] = CharMax
         ELSE FALSE
    ELSE FALSE

(***************************************************************************)
(* split_at_large_gaps                                                     *)
(***************************************************************************)
\* a threshold one too low
PATTERN_CHAINING_THRESHOLD_Low == 200 - 1

PATTERN_CHAINING_THRESHOLD == 200

\* repetition.max.unwrap_or(0)
max_or_Zero(rep) == IF rep.max = None THEN U32(0) ELSE rep.max[1]

\* repetition.max.unwrap_or(u32::MAX)
max_or(rep) == IF rep.max = None THEN U32MAX ELSE rep.max[1]

\* the subtraction of line 77 leaves the u32 range
Underflows(rep) == U32Lt(max_or(rep), rep.min)

\* max_gap, as the wrapping subtraction computes it
max_gap(rep) == U32WrappingSub(max_or(rep), rep.min)

\* the condition with `>=` for `>`
IsLargeGap_Ge(item) ==
    /\ item.kind = "Repetition"
    /\ U32Le(U32(PATTERN_CHAINING_THRESHOLD), max_gap(item))
    /\ ~item.greedy
    /\ any_byte(item.subs[1])

\* the condition without the greediness test
IsLargeGap_IgnoreGreedy(item) ==
    /\ item.kind = "Repetition"
    /\ U32Lt(U32(PATTERN_CHAINING_THRESHOLD), max_gap(item))
    /\ any_byte(item.subs[1])

\* the condition without the wildcard test
IsLargeGap_IgnoreAnyByte(item) ==
    /\ item.kind = "Repetition"
    /\ U32Lt(U32(PATTERN_CHAINING_THRESHOLD), max_gap(item))
    /\ ~item.greedy

\* the condition under which an item closes the current chunk
IsLargeGap(item) ==
    /\ item.kind = "Repetition"
    /\ U32Lt(U32(PATTERN_CHAINING_THRESHOLD), max_gap(item))
    /\ ~item.greedy
    /\ any_byte(item.subs[1])

TrailingPattern(gap, h) == [gap |-> gap, hir |-> h]

\* the closure `push` discarding an empty fragment
push_SkipEmpty(gap, fragment, h, t) ==
    IF fragment = <<>>
    THEN [heading |-> h, trailing |-> t]
    ELSE IF gap # None
    THEN [heading |-> h,
          trailing |-> Append(t, TrailingPattern(gap[1], HirConcat(fragment)))]
    ELSE [heading |-> Some(HirConcat(fragment)), trailing |-> t]

\* the closure `push`: heading and trailing after push(gap, fragment)
push(gap, fragment, h, t) ==
    IF gap # None
    THEN [heading |-> h,
          trailing |-> Append(t, TrailingPattern(gap[1], HirConcat(fragment)))]
    ELSE [heading |-> Some(HirConcat(fragment)), trailing |-> t]

SplitIdle ==
    /\ pc = "start"
    /\ items = <<>>
    /\ heading = None
    /\ trailing = <<>>
    /\ prev_gap = None
    /\ pattern_chunk = <<>>
    /\ ret = None

\* entry: the early return for a non-concatenation, else the loop set-up
Call ==
    /\ pc = "start"
    /\ IF hir.kind # "Concat"
       THEN /\ ret' = Some(<<hir, <<>>>>)
            /\ pc' = "done"
            /\ items' = items
       ELSE /\ items' = hir.subs
            /\ pc' = "loop"
            /\ ret' = ret
    /\ heading' = None
    /\ trailing' = <<>>
    /\ prev_gap' = None
    /\ pattern_chunk' = <<>>
    /\ UNCHANGED hir
    /\ UNCHANGED <<mvars, avars>>

\* the iteration pairing the closed chunk with the gap that follows it
LoopBody_PairWithFollowing(item) ==
    /\ items' = Tail(items)
    /\ IF IsLargeGap(item)
       THEN LET p == push(Some(<<item.min, max_or(item)>>), pattern_chunk,
                          heading, trailing)
            IN  /\ heading' = p.heading
                /\ trailing' = p.trailing
                /\ prev_gap' = None
                /\ pattern_chunk' = <<>>
       ELSE /\ pattern_chunk' = Append(pattern_chunk, item)
            /\ UNCHANGED <<heading, trailing, prev_gap>>
    /\ UNCHANGED <<pc, hir, ret>>
    /\ UNCHANGED <<mvars, avars>>

\* the iteration putting a kept item in front of the chunk
LoopBody_Prepend(item) ==
    /\ items' = Tail(items)
    /\ IF IsLargeGap(item)
       THEN LET p == push(prev_gap, pattern_chunk, heading, trailing)
            IN  /\ heading' = p.heading
                /\ trailing' = p.trailing
                /\ prev_gap' = Some(<<item.min, max_or(item)>>)
                /\ pattern_chunk' = <<>>
       ELSE /\ pattern_chunk' = <<item>> \o pattern_chunk
            /\ UNCHANGED <<heading, trailing, prev_gap>>
    /\ UNCHANGED <<pc, hir, ret>>
    /\ UNCHANGED <<mvars, avars>>

\* one iteration of `for item in items`
LoopBody(item) ==
    /\ items' = Tail(items)
    /\ IF IsLargeGap(item)
       THEN LET p == push(prev_gap, pattern_chunk, heading, trailing)
            IN  /\ heading' = p.heading
                /\ trailing' = p.trailing
                /\ prev_gap' = Some(<<item.min, max_or(item)>>)
                /\ pattern_chunk' = <<>>
       ELSE /\ pattern_chunk' = Append(pattern_chunk, item)
            /\ UNCHANGED <<heading, trailing, prev_gap>>
    /\ UNCHANGED <<pc, hir, ret>>
    /\ UNCHANGED <<mvars, avars>>

LoopStep ==
    /\ pc = "loop"
    /\ items # <<>>
    /\ ~(Head(items).kind = "Repetition" /\ Underflows(Head(items)))
    /\ LoopBody(Head(items))

\* min > max: a build with overflow checks panics at the subtraction
LoopOverflowPanic ==
    /\ pc = "loop"
    /\ items # <<>>
    /\ Head(items).kind = "Repetition" /\ Underflows(Head(items))
    /\ pc' = "panicked"
    /\ UNCHANGED <<hir, items, heading, trailing, prev_gap, pattern_chunk, ret>>
    /\ UNCHANGED <<mvars, avars>>

\* min > max: a build without overflow checks goes on with the wrapped value
LoopOverflowWrap ==
    /\ pc = "loop"
    /\ items # <<>>
    /\ Head(items).kind = "Repetition" /\ Underflows(Head(items))
    /\ LoopBody(Head(items))

\* after the loop: the last push, heading.unwrap() and the return
Finish ==
    /\ pc = "loop"
    /\ items = <<>>
    /\ LET p == push(prev_gap, pattern_chunk, heading, trailing)
       IN  /\ heading' = p.heading
           /\ trailing' = p.trailing
           /\ IF p.heading = None
              THEN pc' = "panicked" /\ ret' = ret
              ELSE pc' = "done" /\ ret' = Some(<<p.heading[1], p.trailing>>)
    /\ UNCHANGED <<hir, items, prev_gap, pattern_chunk>>
    /\ UNCHANGED <<mvars, avars>>

(***************************************************************************)
(* Inputs of split_at_large_gaps: Hir::concat over up to MaxItems children *)
(* built with the constructors above, as tests::split builds them.         *)
(***************************************************************************)
\* most children handed to Hir::concat
MaxItems == 3

TH == PATTERN_CHAINING_THRESHOLD

\* a class that misses one byte
PartialClass == ClassBytes(<<RangeNew(0, U8MAX - 1)>>)

\* children whose repetitions all have min <= max.unwrap_or(u32::MAX)
Children ==
    { HirLiteral(<<1>>),
      HirLiteral(<<2, 3>>),
      HirRepetition(U32(0), None, FALSE, DotAnyByte),
      HirRepetition(U32(10), Some(U32(TH + 11)), FALSE, DotAnyByte),
      HirRepetition(U32(10), Some(U32(TH + 10)), FALSE, DotAnyByte),
      HirRepetition(U32(0), Some(U32(TH)), FALSE, DotAnyByte),
      HirRepetition(U32WrappingSub(U32MAX, U32(TH)), None, FALSE, DotAnyByte),
      HirRepetition(U32WrappingSub(U32MAX, U32(TH + 1)), None, FALSE, DotAnyByte),
      HirRepetition(U32(0), Some(U32(2 * TH)), TRUE, DotAnyByte),
      HirRepetition(U32(0), None, TRUE, DotAnyByte),
      HirRepetition(U32(0), None, FALSE, PartialClass),
      HirRepetition(U32(0), None, FALSE, DotAnyChar),
      HirRepetition(U32(1), Some(U32(1)), FALSE, DotAnyByte) }

\* repetitions with min > max, which Hir::repetition accepts as well
MalformedChildren ==
    { HirRepetition(U32(5), Some(U32(2)), FALSE, DotAnyByte),
      HirRepetition(U32(TH + 100), Some(U32(0)), TRUE, HirLiteral(<<1>>)) }

SeqsUpTo(S, n) == UNION {[1..k -> S] : k \in 0..n}

\* the inputs of tests::split
TestInputs ==
    { HirLiteral(<<1, 2, 3>>),
      HirConcat(<<HirLiteral(<<1, 2, 3>>), HirLiteral(<<6, 7>>)>>),
      HirConcat(<<HirLiteral(<<1>>),
                  HirRepetition(U32(0), Some(U32(TH)), FALSE, DotAnyByte),
                  HirLiteral(<<2, 3>>)>>),
      HirConcat(<<HirLiteral(<<1>>),
                  HirRepetition(U32(0), Some(U32(2 * TH)), TRUE, DotAnyByte),
                  HirLiteral(<<2, 3>>)>>),
      HirConcat(<<HirLiteral(<<1, 2, 3>>),
                  HirRepetition(U32(0), None, FALSE, DotAnyByte),
                  HirLiteral(<<5>>),
                  HirRepetition(U32(10), Some(U32(11 + TH)), FALSE, DotAnyByte),
                  HirLiteral(<<6, 7>>)>>) }

SplitInputs ==
    TestInputs \cup {HirConcat(raw) : raw \in SeqsUpTo(Children, MaxItems)}
SplitInputsAny ==
    TestInputs \cup
    {HirConcat(raw) : raw \in SeqsUpTo(Children \cup MalformedChildren, MaxItems)}

(***************************************************************************)
(* The wildcard predicate as a state machine: a HirKind is picked or a     *)
(* class is built range by range, then any_byte is applied to it.          *)
(***************************************************************************)
\* first and last code point of the surrogate gap's two neighbours
ByteBounds == {0, 1, 127, U8MAX - 1, U8MAX}
CharBounds == {CharMin, 1, 55295, 57344, CharMax - 1, CharMax}

OtherKinds ==
    { HirEmpty, HirLiteral(<<1>>), HirLook,
      HirRepetition(U32(0), None, FALSE, DotAnyByte),
      HirConcat(<<DotAnyByte, DotAnyByte>>),
      HirConcat(<<HirLiteral(<<1>>), DotAnyChar>>) }

AnyIdle ==
    /\ apc = "start"
    /\ hir_kind = HirEmpty
    /\ any_ret = None

KindOther ==
    /\ apc = "start"
    /\ \E k \in OtherKinds : hir_kind' = k
    /\ apc' = "built"
    /\ UNCHANGED any_ret
    /\ UNCHANGED <<mvars, svars>>

\* ClassBytes::empty() and ClassUnicode::empty()
KindClassEmpty ==
    /\ apc = "start"
    /\ \E unicode \in BOOLEAN :
        hir_kind' = IF unicode THEN ClassUnicode(<<>>) ELSE ClassBytes(<<>>)
    /\ apc' = "built"
    /\ UNCHANGED any_ret
    /\ UNCHANGED <<mvars, svars>>

KindBytesPush ==
    /\ apc = "built"
    /\ hir_kind.kind = "ClassBytes"
    /\ \E x, y \in ByteBounds :
        hir_kind' = ClassBytes(ClassPush(hir_kind.ranges, RangeNew(x, y)))
    /\ UNCHANGED <<apc, any_ret>>
    /\ UNCHANGED <<mvars, svars>>

KindUnicodePush ==
    /\ apc = "built"
    /\ hir_kind.kind = "ClassUnicode"
    /\ \E x, y \in CharBounds :
        hir_kind' = ClassUnicode(ClassPush(hir_kind.ranges, RangeNew(x, y)))
    /\ UNCHANGED <<apc, any_ret>>
    /\ UNCHANGED <<mvars, svars>>

AnyByteCall ==
    /\ apc = "built"
    /\ any_ret' = Some(any_byte(hir_kind))
    /\ apc' = "done"
    /\ UNCHANGED hir_kind
    /\ UNCHANGED <<mvars, svars>>

(***************************************************************************)
(* Specifications                                                          *)
(***************************************************************************)
\* the masked-byte converter
MaskInit ==
    /\ mpc = "start"
    /\ b \in {None} \cup {Some(hb) : hb \in HexBytes}
    /\ class = <<>>
    /\ result = None
    /\ AnyIdle /\ SplitIdle /\ hir = HirEmpty

MaskNext ==
    \/ ClassPushRange
    \/ ClassDot
    \/ HexByteToClass
    \/ ClassToHexByte

SpecMask == MaskInit /\ [][MaskNext]_vars

\* the wildcard predicate
AnyInit == MaskIdle /\ AnyIdle /\ SplitIdle /\ hir = HirEmpty

AnyNext ==
    \/ KindOther
    \/ KindClassEmpty
    \/ KindBytesPush
    \/ KindUnicodePush
    \/ AnyByteCall

SpecAny == AnyInit /\ [][AnyNext]_vars

\* the splitter on the IRs the lowering stage builds (min <= max)
Init == MaskIdle /\ AnyIdle /\ SplitIdle /\ hir \in SplitInputs

Next ==
    \/ Call
    \/ LoopStep
    \/ Finish

Spec == Init /\ [][Next]_vars

\* the splitter on every IR the constructors build
InitAny == MaskIdle /\ AnyIdle /\ SplitIdle /\ hir \in SplitInputsAny

NextAny ==
    \/ Call
    \/ LoopStep
    \/ LoopOverflowPanic
    \/ LoopOverflowWrap
    \/ Finish

SpecAnyIR == InitAny /\ [][NextAny]_vars

(***************************************************************************)
(* Claims about the masked-byte converter (SpecMask)                       *)
(***************************************************************************)
\* bit i of a byte
Bit(x, i) == (x \div (2 ^ i)) % 2

\* the bytes a masked byte stands for
MaskedSet(hb) == {x \in Byte : \A i \in 0..7 : Bit(hb.mask, i) = 1 => Bit(x, i) = Bit(hb.value, i)}

\* C1: expanding a masked byte with value & !mask == 0 and classifying the
\* class gives back Some of the same value and mask.
C1_RoundTrip ==
    (mpc = "classified" /\ b # None) => result = b

C1_Witness ==
    /\ mpc = "classified"
    /\ b = Some(HexByte(8, 170))
    /\ result = Some(HexByte(8, 170))

\* C2: class_to_hex_byte answers Some(m) only for a class whose bytes are
\* exactly the bytes m stands for.
C2_RejectionSoundness ==
    (mpc = "classified" /\ result # None) => BytesOf(class) = MaskedSet(result[1])

\* C9: hex_byte_to_class panics, leaving no class, exactly when the value
\* has a bit set where the mask has none.
C9_FailFast ==
    (b # None /\ mpc # "start") =>
        IF \E i \in 0..7 : Bit(b[1].value, i) = 1 /\ Bit(b[1].mask, i) = 0
        THEN mpc = "panicked" /\ class = <<>> /\ result = None
        ELSE mpc # "panicked" /\ BytesOf(class) # {}

C9_Witness ==
    /\ mpc = "panicked"
    /\ b = Some(HexByte(49, 240))

(***************************************************************************)
(* Claims about any_byte (SpecAny)                                         *)
(***************************************************************************)
\* code points of a char range (the surrogates are no chars)
CharsIn(r) == r[2] - r[1] + 1 - (IF r[1] < 55296 /\ r[2] > 57343 THEN 2048 ELSE 0)

RECURSIVE ClassSize(_, _)
ClassSize(ranges, unicode) ==
    IF ranges = <<>> THEN 0
    ELSE ClassSize(Tail(ranges), unicode)
         + (IF unicode THEN CharsIn(Head(ranges))
            ELSE Head(ranges)[2] - Head(ranges)[1] + 1)

\* the class matches every element of its domain
CoversDomain(k) ==
    \/ k.kind = "ClassBytes" /\ ClassSize(k.ranges, FALSE) = 256
    \/ k.kind = "ClassUnicode" /\ ClassSize(k.ranges, TRUE) = 1112064

\* C10: any_byte is true exactly for a byte or char class whose first range
\* is the whole domain; false for other kinds, the empty class, a partial
\* first range, and a class that covers the domain with several ranges.
C10_AnyByteFirstRange ==
    apc = "done" =>
        LET k == hir_kind
            isClass == k.kind \in {"ClassBytes", "ClassUnicode"}
            full == IF k.kind = "ClassBytes" THEN <<0, 255>> ELSE <<0, 1114111>>
        IN  /\ any_ret[1] <=> (isClass /\ Len(k.ranges) >= 1 /\ k.ranges[1] = full)
            /\ any_ret[1] => (CoversDomain(k) /\ Len(k.ranges) = 1)
            /\ (isClass /\ Len(k.ranges) > 1 /\ CoversDomain(k)) => ~any_ret[1]

C10_Witness ==
    /\ apc = "done"
    /\ hir_kind = ClassUnicode(<<<<0, 55295>>, <<57344, 1114111>>>>)
    /\ CoversDomain(hir_kind)
    /\ any_ret = Some(FALSE)

(***************************************************************************)
(* The classification rule and the expansion (SpecMask)                    *)
(***************************************************************************)
\* the bit positions where two bytes differ
DifferingBits(x, y) == {i \in 0..7 : Bit(x, i) # Bit(y, i)}

\* the byte with a 1 exactly where x and y agree: !(x XOR y)
AgreeMask(x, y) ==
    CHOOSE m \in Byte : \A i \in 0..7 : Bit(m, i) = 1 <=> Bit(x, i) = Bit(y, i)

\* the sum over the ranges of (end - start + 1), counted as the positions
\* (range index, byte) the ranges hold
RangeSum(c) ==
    Cardinality(UNION {{<<i, x>> : x \in c[i][1]..c[i][2]} : i \in 1..Len(c)})

\* the answer the classification rule prescribes for class c
ClassificationRule(c) ==
    IF c = <<>> THEN None
    ELSE LET smallest == c[1][1]
             largest == c[Len(c)][2]
         IN  IF /\ \A i \in 0..7 : Bit(smallest, i) = 1 => Bit(largest, i) = 1
                /\ RangeSum(c) = 2 ^ Cardinality(DifferingBits(largest, smallest))
             THEN Some(HexByte(smallest, AgreeMask(largest, smallest)))
             ELSE None

C12_ExpansionExact ==
    (mpc = "expanded" /\ b # None) =>
        LET hb == b[1]
            free == {i \in 0..7 : Bit(hb.mask, i) = 0}
            pushes == hex_byte_pushes(hb)
        IN  /\ \A i \in free : Bit(hb.value, i) = 0
            /\ BytesOf(class) = MaskedSet(hb)
            /\ Cardinality(BytesOf(class)) = 2 ^ Cardinality(free)
            /\ RangeSum(class) = 2 ^ Cardinality(free)
            /\ Len(pushes) = 2 ^ Cardinality(free)
            /\ \A i \in 1..Len(pushes) : pushes[i][1] = pushes[i][2]
            /\ \A i, j \in 1..Len(pushes) : pushes[i] = pushes[j] => i = j
            /\ class[1][1] = hb.value
            /\ class[Len(class)][2] = hb.value + (U8MAX - hb.mask)

\* 0x3? of tests::mask: sixteen singleton pushes, one range in the class
C12_Witness ==
    /\ mpc = "expanded"
    /\ b = Some(HexByte(48, 240))
    /\ Len(hex_byte_pushes(b[1])) = 16
    /\ class = <<<<48, 63>>>>

\* the vector {3-4, 8} of tests::mask is classified and refused
C11_RefusedVectors ==
    /\ mpc = "classified"
    /\ class = <<<<3, 4>>, <<8, 8>>>>
    /\ result = None

(***************************************************************************)
(* Claims about split_at_large_gaps (Spec, SpecAnyIR)                      *)
(***************************************************************************)
ClaimThreshold == 200

ClaimMax(c) == IF c.max = None THEN U32MAX ELSE c.max[1]
\* max - min, for min <= max
ClaimWidth(c) == U32WrappingSub(ClaimMax(c), c.min)

NonGreedyWildcard(c) ==
    c.kind = "Repetition" /\ ~c.greedy /\ any_byte(c.subs[1])

\* a non-greedy repetition of a full wildcard wider than the threshold
QualifyingGap(c) ==
    /\ NonGreedyWildcard(c)
    /\ U32Le(c.min, ClaimMax(c))
    /\ U32Lt(U32(ClaimThreshold), ClaimWidth(c))

GapPositions(subs) == {i \in 1..Len(subs) : QualifyingGap(subs[i])}

\* position of the j-th qualifying gap
NthGap(subs, j) ==
    CHOOSE i \in GapPositions(subs) :
        Cardinality({x \in GapPositions(subs) : x < i}) = j - 1

Returned == pc = "done" /\ ret # None

\* C3: a non-concatenation, and a concatenation without qualifying gap,
\* comes back as (hir, []).
C3_NoSplitIdentity ==
    (pc \in {"done", "panicked"}
        /\ (hir.kind # "Concat" \/ GapPositions(hir.subs) = {}))
    => (pc = "done" /\ ret = Some(<<hir, <<>>>>))

C3_Witness ==
    /\ pc = "done"
    /\ hir.kind = "Concat"
    /\ \E i \in 1..Len(hir.subs) : hir.subs[i].kind = "Repetition"
    /\ GapPositions(hir.subs) = {}
    /\ ret = Some(<<hir, <<>>>>)

\* C4: with k >= 1 qualifying gaps the leading fragment is the children
\* before the first gap, and trailing fragment j is the children between gap
\* j and gap j+1 (or the end) with the range of gap j.
C4_LargeGapSplit ==
    (pc \in {"done", "panicked"} /\ hir.kind = "Concat"
        /\ GapPositions(hir.subs) # {})
    => LET subs == hir.subs
           k == Cardinality(GapPositions(subs))
           g(j) == IF j <= k THEN NthGap(subs, j) ELSE Len(subs) + 1
       IN  /\ Returned
           /\ ret[1][1] = HirConcat(SubSeq(subs, 1, g(1) - 1))
           /\ Len(ret[1][2]) = k
           /\ \A j \in 1..k :
                /\ ret[1][2][j].gap = <<subs[g(j)].min, ClaimMax(subs[g(j)])>>
                /\ ret[1][2][j].hir = HirConcat(SubSeq(subs, g(j) + 1, g(j + 1) - 1))

C4_Witness ==
    /\ Returned
    /\ hir.kind = "Concat"
    /\ ret[1][1] = HirLiteral(<<1, 2, 3>>)
    /\ ret[1][2] =
        << TrailingPattern(<<U32(0), U32MAX>>, HirLiteral(<<5>>)),
           TrailingPattern(<<U32(10), U32(ClaimThreshold + 11)>>,
                           HirLiteral(<<6, 7>>)) >>

\* C5: a non-greedy full-wildcard repetition of width exactly 200 is appended
\* to the current chunk; one of width 201 closes the chunk and becomes the
\* pending gap.
C5_ThresholdExclusive ==
    [][(pc = "loop" /\ items # <<>> /\ NonGreedyWildcard(Head(items))) =>
        LET item == Head(items)
        IN  /\ ClaimWidth(item) = U32(ClaimThreshold) =>
                /\ pattern_chunk' = Append(pattern_chunk, item)
                /\ UNCHANGED <<heading, trailing, prev_gap>>
            /\ ClaimWidth(item) = U32(ClaimThreshold + 1) =>
                /\ pattern_chunk' = <<>>
                /\ prev_gap' = Some(<<item.min, ClaimMax(item)>>)
                /\ <<heading, trailing>>' # <<heading, trailing>>]_vars

C5_Witness ==
    /\ Returned
    /\ hir.kind = "Concat"
    /\ \E i \in 1..Len(hir.subs) :
        /\ NonGreedyWildcard(hir.subs[i])
        /\ hir.subs[i].min # U32(0)
        /\ ClaimWidth(hir.subs[i]) = U32(ClaimThreshold)
    /\ ret = Some(<<hir, <<>>>>)

\* widths of the non-greedy full-wildcard repetitions among the children
WideChildren(subs, w) ==
    {i \in 1..Len(subs) :
        NonGreedyWildcard(subs[i]) /\ U32Le(U32(w), ClaimWidth(subs[i]))}

\* C6 as stated: 200 is the minimum width that splits, so the pattern is cut
\* once for every non-greedy full-wildcard repetition of width >= 200.
C6_ThresholdIsMinimum ==
    (Returned /\ hir.kind = "Concat")
    => Len(ret[1][2]) = Cardinality(WideChildren(hir.subs, ClaimThreshold))

\* C6 amended: the pattern is cut once for every non-greedy full-wildcard
\* repetition of width >= 201; a width of 200 or less does not cut it.
C6_ThresholdIsExceeded ==
    (Returned /\ hir.kind = "Concat")
    => Len(ret[1][2]) = Cardinality(WideChildren(hir.subs, ClaimThreshold + 1))

C6_Witness ==
    /\ Returned
    /\ hir.kind = "Concat"
    /\ Cardinality(WideChildren(hir.subs, ClaimThreshold)) = 2
    /\ Cardinality(WideChildren(hir.subs, ClaimThreshold + 1)) = 1
    /\ Len(ret[1][2]) = 1

\* C7: a child that is no repetition, a greedy repetition, or a repetition
\* of something any_byte rejects, is appended to the current chunk whatever
\* its bounds, and closes nothing.
C7_OnlyNonGreedyWildcards ==
    [][(pc = "loop" /\ items # <<>> /\ ~NonGreedyWildcard(Head(items))) =>
        /\ pattern_chunk' = Append(pattern_chunk, Head(items))
        /\ UNCHANGED <<heading, trailing, prev_gap>>]_vars

C7_Witness ==
    /\ Returned
    /\ hir.kind = "Concat"
    /\ \E i \in 1..Len(hir.subs) :
        /\ hir.subs[i].kind = "Repetition"
        /\ hir.subs[i].greedy
        /\ hir.subs[i].max = None
    /\ \E i \in 1..Len(hir.subs) :
        /\ hir.subs[i].kind = "Repetition"
        /\ ~hir.subs[i].greedy
        /\ ~any_byte(hir.subs[i].subs[1])
        /\ hir.subs[i].max = None
    /\ ret = Some(<<hir, <<>>>>)

\* the item about to be visited is a repetition with min > max
UnderflowAt ==
    /\ items # <<>>
    /\ Head(items).kind = "Repetition"
    /\ U32Lt(ClaimMax(Head(items)), Head(items).min)

\* every repetition child of the concatenation has min <= max
BoundsOrdered(h) ==
    h.kind = "Concat" =>
        \A i \in 1..Len(h.subs) :
            h.subs[i].kind = "Repetition" =>
                U32Le(h.subs[i].min, ClaimMax(h.subs[i]))

EmptyConcatenation == HirConcat(<<>>)

\* the range min..=max.unwrap_or(u32::MAX) of a repetition
ClaimRange(c) == <<c.min, ClaimMax(c)>>

\* C13: when the first child is a qualifying gap the leading fragment is the
\* empty concatenation; when a qualifying gap is the last child or is directly
\* followed by another, its trailing fragment is the empty concatenation with
\* that gap's range; the call returns, and the trailing fragments carry the
\* ranges of the qualifying gaps, one each, in order.
C13_EmptyFragments ==
    (pc \in {"done", "panicked"} /\ hir.kind = "Concat"
        /\ GapPositions(hir.subs) # {})
    => LET subs == hir.subs
           gaps == GapPositions(subs)
           k == Cardinality(gaps)
       IN  /\ pc = "done"
           /\ ret # None
           /\ EmptyConcatenation = HirEmpty
           /\ 1 \in gaps => ret[1][1] = EmptyConcatenation
           /\ Len(ret[1][2]) = k
           /\ \A j \in 1..k :
                LET i == NthGap(subs, j)
                IN  /\ ret[1][2][j].gap = ClaimRange(subs[i])
                    /\ (i = Len(subs) \/ i + 1 \in gaps) =>
                           ret[1][2][j].hir = EmptyConcatenation

\* two adjacent qualifying gaps and nothing else: an empty leading fragment,
\* an empty fragment between the gaps and an empty last fragment
C13_Witness ==
    /\ pc = "done"
    /\ hir = HirConcat(<<HirRepetition(U32(0), None, FALSE, DotAnyByte),
                         HirRepetition(U32(10), Some(U32(ClaimThreshold + 11)),
                                       FALSE, DotAnyByte)>>)
    /\ ret = Some(<<HirEmpty,
                    << TrailingPattern(<<U32(0), U32MAX>>, HirEmpty),
                       TrailingPattern(<<U32(10), U32(ClaimThreshold + 11)>>,
                                       HirEmpty) >> >>)

\* the children a fragment was built from: a child of a concatenation is
\* neither empty nor a concatenation, and two neighbours are never both
\* literals, so Hir::concat leaves them as they are
ChildrenOf(h) ==
    IF h.kind = "Concat" THEN h.subs
    ELSE IF h = HirEmpty THEN <<>>
    ELSE <<h>>

RECURSIVE ChildrenOfAll(_)
ChildrenOfAll(t) ==
    IF t = <<>> THEN <<>>
    ELSE ChildrenOf(Head(t).hir) \o ChildrenOfAll(Tail(t))

KeptChild(c) == ~QualifyingGap(c)

\* the children visited so far
Visited == SubSeq(hir.subs, 1, Len(hir.subs) - Len(items))

\* what holds between two iterations of the loop
LoopInvariant ==
    LET gaps == GapPositions(Visited)
        k == Cardinality(gaps)
    IN  /\ (IF heading = None THEN <<>> ELSE ChildrenOf(heading[1]))
              \o ChildrenOfAll(trailing) \o pattern_chunk
           = SelectSeq(Visited, KeptChild)
        /\ heading # None <=> prev_gap # None
        /\ prev_gap # None <=> k > 0
        /\ k > 0 => /\ prev_gap[1] = ClaimRange(Visited[NthGap(Visited, k)])
                    /\ Len(trailing) = k - 1
        /\ k = 0 => trailing = <<>>

\* what holds when the call has returned
ReturnedInvariant ==
    /\ heading # None
    /\ ret = Some(<<heading[1], trailing>>)
    /\ ChildrenOf(heading[1]) \o ChildrenOfAll(trailing)
          = SelectSeq(hir.subs, KeptChild)
    /\ Len(trailing) = Cardinality(GapPositions(hir.subs))

\* C14: between two iterations the children in the leading fragment, then in
\* the trailing fragments in list order, then in the current buffer, are the
\* non-gap children visited so far, unchanged and in their order; the leading
\* fragment is set iff a gap is pending or the loop has ended, and once set
\* is never written again; at the end there are as many trailing fragments
\* as qualifying gaps.
C14_ContentAndOrder ==
    /\ [](pc = "loop" => LoopInvariant)
    /\ []((pc \in {"done", "panicked"} /\ hir.kind = "Concat")
            => (pc = "done" /\ ReturnedInvariant))
    /\ [][heading # None => heading' = heading]_vars

\* tests::split, four of five children visited: a leading fragment, one
\* trailing fragment, a pending gap, an empty buffer
C14_Witness ==
    /\ pc = "loop"
    /\ Len(hir.subs) = 5
    /\ Len(items) = 1
    /\ heading = Some(HirLiteral(<<1, 2, 3>>))
    /\ trailing = <<TrailingPattern(<<U32(0), U32MAX>>, HirLiteral(<<5>>))>>
    /\ prev_gap = Some(<<U32(10), U32(ClaimThreshold + 11)>>)
    /\ pattern_chunk = <<>>

====
